---- MODULE Spec2Model ----
(***************************************************************************)
(* A model of the FormulaOne results store (formula_one.py): five pandas   *)
(* tables kept in memory, five .csv files on disk, and the ergast results  *)
(* API it pages through.                                                    *)
(*                                                                         *)
(* A DataFrame is a sequence of <<index label, row>> entries.  A cell whose *)
(* pandas type changes on a .csv round trip (DateTime, Latitude,           *)
(* FastestLapSpeed) is a pair <<type, value>>; its text in a file is the    *)
(* value alone.  Identifiers that are strings in the program are numbers   *)
(* here, ordered as the strings are.                                        *)
(***************************************************************************)
EXTENDS Integers, Sequences, FiniteSets, TLC

\* ---------------------------------------------------------------- bounds
FirstSeason == 2021
NumSeasons == 2
MaxRounds == 2
MaxRaces == 3
ResultsPerRace == 2
MaxOutages == 1
MaxRoundArg == 120

LastSeason == FirstSeason + NumSeasons - 1
Seasons == FirstSeason..LastSeason
Rounds == 1..MaxRounds

VARIABLES
  constructed,   \* a FormulaOne object exists
  races, circuits, results, drivers, constructors,   \* self.<table>
  dirExists,     \* self.directory is in os.listdir()
  files,         \* the five .csv files of the directory
  published,     \* upstream: rounds published per season
  now,           \* datetime.datetime.now().year
  lastOp,        \* the operation that ran last
  lastArgs,      \* its arguments
  lastRet,       \* what it returned (or the exception it raised)
  requests,      \* how many upstream requests it issued
  writes,        \* the five files as they were after each round of to_csv calls it made
  scenario,      \* history: scrape(Y, Y) on an unloaded store, one race published, update()
  arg, rid,      \* input and output of _get_race_id applied on its own
  race_row, raised,   \* the row _get_race builds from arg, the exception raised instead
  loop           \* the while loop of _collect_data_from run on its own

tables == <<races, circuits, results, drivers, constructors>>
disk == <<dirExists, files>>
upstream == <<published, now>>
last == <<lastOp, lastArgs, lastRet, requests, writes>>
fn == <<arg, rid, race_row, raised, loop>>
vars == <<constructed, tables, disk, upstream, last, scenario, fn>>

\* ------------------------------------------------- python strings of digits
RECURSIVE Str(_)
Str(n) == IF n < 10 THEN <<n>> ELSE Str(n \div 10) \o <<n % 10>>

RECURSIVE IntOf(_)
IntOf(s) == IF Len(s) = 0 THEN 0
            ELSE 10 * IntOf(SubSeq(s, 1, Len(s) - 1)) + s[Len(s)]

\* ------------------------------------------------------------- DataFrames
None == [isNone |-> TRUE, rows |-> <<>>]
Frame(entries) == [isNone |-> FALSE, rows |-> entries \o <<>>]

\* pd.DataFrame(list of dicts): a RangeIndex 0..n-1
DataFrame(rowList) ==
  Frame([i \in 1..Len(rowList) |-> [idx |-> i - 1, row |-> rowList[i]]])

\* DataFrame.drop_duplicates(): keep the first of equal rows, labels kept
RECURSIVE FirstOccurrences(_, _)
FirstOccurrences(entries, n) ==
  IF n = 0 THEN <<>>
  ELSE LET before == FirstOccurrences(entries, n - 1)
       IN IF \E j \in 1..(n - 1) : entries[j].row = entries[n].row
          THEN before
          ELSE Append(before, entries[n])

drop_duplicates(df) == Frame(FirstOccurrences(df.rows, Len(df.rows)))

\* pd.concat([a, b]): rows of a then rows of b, labels kept
concat(a, b) == Frame(a.rows \o b.rows)

\* DataFrame.reset_index(drop=True)
reset_index(df) ==
  Frame([i \in 1..Len(df.rows) |-> [idx |-> i - 1, row |-> df.rows[i].row]])

\* keys are pairs, compared column by column
KeyLeq(k1, k2) == k1[1] < k2[1] \/ (k1[1] = k2[1] /\ k1[2] <= k2[2])

\* DataFrame.sort_values(by): rows with equal keys keep their order
RECURSIVE InsertSorted(_, _)
InsertSorted(sorted, ke) ==
  IF Len(sorted) = 0 THEN <<ke>>
  ELSE IF KeyLeq(sorted[Len(sorted)].key, ke.key)
       THEN Append(sorted, ke)
       ELSE Append(InsertSorted(SubSeq(sorted, 1, Len(sorted) - 1), ke),
                   sorted[Len(sorted)])

RECURSIVE SortKeyed(_, _)
SortKeyed(keyed, n) ==
  IF n = 0 THEN <<>>
  ELSE InsertSorted(SortKeyed(keyed, n - 1), keyed[n])

RaceKey(row) == <<row.RaceID, 0>>
CircuitKey(row) == <<row.CircuitID, 0>>
ResultKey(row) == <<row.RaceID, row.Position>>
DriverKey(row) == <<row.DriverID, 0>>
ConstructorKey(row) == <<row.ConstructorID, 0>>

\* the columns save_data sorts table `name` by
SortKey(name, row) ==
  CASE name = "races" -> RaceKey(row)
    [] name = "circuits" -> CircuitKey(row)
    [] name = "results" -> ResultKey(row)
    [] name = "drivers" -> DriverKey(row)
    [] OTHER -> ConstructorKey(row)

\* save_data without its sort_values call
Unsorted(name, df) == df

sort_values(name, df) ==
  LET keyed == [i \in 1..Len(df.rows) |->
                  [key |-> SortKey(name, df.rows[i].row), entry |-> df.rows[i]]]
      sorted == SortKeyed(keyed \o <<>>, Len(keyed))
  IN Frame([i \in 1..Len(sorted) |-> sorted[i].entry])

\* -------------------------------------------------------------- .csv files
NoFile == [exists |-> FALSE, rows |-> <<>>]

\* DateTime is a Timestamp when parsed from the API and a str when read from a file
RaceText(row) == [row EXCEPT !.DateTime = row.DateTime[2]]
RaceParse(text) == [text EXCEPT !.DateTime = <<"str", text.DateTime>>]
\* Latitude is a str from the API and a float64 when read from a file
CircuitText(row) == [row EXCEPT !.Latitude = row.Latitude[2]]
CircuitParse(text) == [text EXCEPT !.Latitude = <<"float64", text.Latitude>>]
\* FastestLapSpeed is a str from the API and a float64 when read from a file
ResultText(row) == [row EXCEPT !.FastestLapSpeed = row.FastestLapSpeed[2]]
ResultParse(text) ==
  [text EXCEPT !.FastestLapSpeed = <<"float64", text.FastestLapSpeed>>]
\* every column of drivers and constructors is a str, in memory and in the file
PlainText(row) == row
PlainParse(text) == text

RowText(name, row) ==
  CASE name = "races" -> RaceText(row)
    [] name = "circuits" -> CircuitText(row)
    [] name = "results" -> ResultText(row)
    [] OTHER -> PlainText(row)

RowParse(name, text) ==
  CASE name = "races" -> RaceParse(text)
    [] name = "circuits" -> CircuitParse(text)
    [] name = "results" -> ResultParse(text)
    [] OTHER -> PlainParse(text)

\* DataFrame.to_csv(path) of table `name`: the index column and every cell as text
to_csv(name, df) ==
  [exists |-> TRUE,
   rows |-> [i \in 1..Len(df.rows) |->
               [idx |-> df.rows[i].idx, row |-> RowText(name, df.rows[i].row)]]
            \o <<>>]

\* pd.read_csv(path, index_col=0) of table `name`: labels from the first column,
\* cell types inferred from the text
read_csv(name, file) ==
  Frame([i \in 1..Len(file.rows) |->
           [idx |-> file.rows[i].idx, row |-> RowParse(name, file.rows[i].row)]])

TableOrder == <<"races", "circuits", "results", "drivers", "constructors">>
TableNames == {TableOrder[i] : i \in 1..Len(TableOrder)}

\* Body applied to the value of v, v evaluated once
Bind(v, Body(_)) == CHOOSE y \in {Body(x) : x \in {v}} : TRUE

\* one value per table, by name
Each(Of(_)) ==
  [races |-> Of("races"), circuits |-> Of("circuits"), results |-> Of("results"),
   drivers |-> Of("drivers"), constructors |-> Of("constructors")]

\* --------------------------------------------------------------- upstream
\* the JSON of one race event as the API serves it now
Payload(s, r) ==
  [season |-> Str(s),
   round |-> Str(r),
   raceName |-> s * 100 + r,
   Circuit |-> [circuitId |-> r, lat |-> 10 + r],
   date |-> s * 100 + r,
   Results |-> [p \in 1..ResultsPerRace |->
                  [position |-> Str(p), driverId |-> p,
                   constructorId |-> (p + 1) \div 2, speed |-> 200 + p]]]

\* the race of .../current/last/results.json: the last one published
PublishedSeasons == {s \in Seasons : published[s] > 0}
LatestSeason == CHOOSE s \in PublishedSeasons : \A t \in PublishedSeasons : t <= s
LatestRace == <<LatestSeason, published[LatestSeason]>>

\* ------------------------------------------------------------ row builders
\* _get_race_id without the zero padding of the round
_get_race_id_unpadded(data) == IntOf(data.season \o data.round)

\* dict.get(key, default)
get(data, key, default) == IF key \in DOMAIN data THEN data[key] ELSE default

\* line 75 raises TypeError: without a round, rnd is the int 0 and len(rnd) fails
_get_race_id_raises(data) == "round" \notin DOMAIN data

\* the season missing, year is the int 0, which the f-string formats as "0"
_get_race_id(data) ==
  LET year == get(data, "season", <<0>>)
      rnd == IF Len(data.round) = 2 THEN data.round ELSE <<0>> \o data.round
  IN IntOf(year \o rnd)

\* the call of _get_race_id at line 93 lets its exception through
_get_race_raises(data) == _get_race_id_raises(data)

_get_race(data) ==
  [RaceID |-> _get_race_id(data),
   Season |-> IF "season" \in DOMAIN data THEN IntOf(data.season) ELSE -1,
   Round |-> IF "round" \in DOMAIN data THEN IntOf(data.round) ELSE -1,
   RaceName |-> data.raceName,
   CircuitID |-> data.Circuit.circuitId,
   DateTime |-> <<"Timestamp", data.date>>]

_get_circuit(data) ==
  [CircuitID |-> data.Circuit.circuitId,
   Latitude |-> <<"str", data.Circuit.lat>>]

_get_results(data) ==
  [p \in 1..Len(data.Results) |->
     [RaceID |-> _get_race_id(data),
      Position |-> IntOf(data.Results[p].position),
      DriverID |-> data.Results[p].driverId,
      ConstructorID |-> data.Results[p].constructorId,
      FastestLapSpeed |-> <<"str", data.Results[p].speed>>]]

\* only the first entry of Results yields a driver row
_get_drivers_first_only(data) ==
  [p \in 1..1 |->
     [DriverID |-> data.Results[p].driverId, Code |-> data.Results[p].driverId]]

_get_drivers(data) ==
  [p \in 1..Len(data.Results) |->
     [DriverID |-> data.Results[p].driverId, Code |-> data.Results[p].driverId]]

_get_constructors(data) ==
  [p \in 1..Len(data.Results) |->
     [ConstructorID |-> data.Results[p].constructorId,
      Name |-> data.Results[p].constructorId]]

\* ------------------------------------------------------------- collection
\* the answer to GET /f1/{year}/{round}/results.json; down: the requests that fail
Response(year, round, down) ==
  IF <<year, round>> \in down THEN "fail"
  ELSE IF round > published[year] THEN "empty"
  ELSE "ok"

\* the round whose response ends the while loop of _collect_data_from
StopRound(year, down) ==
  CHOOSE r \in 1..(MaxRounds + 1) :
    /\ Response(year, r, down) # "ok"
    /\ \A q \in 1..(r - 1) : Response(year, q, down) = "ok"

\* the rows one race event adds to the list of table `name`
EventRows(name, data) ==
  CASE name = "races" -> <<_get_race(data)>>
    [] name = "circuits" -> <<_get_circuit(data)>>
    [] name = "results" -> _get_results(data)
    [] name = "drivers" -> _get_drivers(data)
    [] OTHER -> _get_constructors(data)

\* the list of table `name` after _collect_data_from(year) has appended `n` rounds
RECURSIVE RoundRows(_, _, _)
RoundRows(name, year, n) ==
  IF n = 0 THEN <<>>
  ELSE RoundRows(name, year, n - 1) \o EventRows(name, Payload(year, n))

\* the list of table `name` that _collect_data_from(year) returns
_collect_data_from(name, year, down) ==
  RoundRows(name, year, StopRound(year, down) - 1)

\* the requests _collect_data_from(year) issues, with their responses
CollectLog(year, down) ==
  [r \in 1..StopRound(year, down) |-> <<year, r, Response(year, r, down)>>]

\* end_year used as given, the default None left unset
EndYearUnset(end_year) == end_year

\* end_year as _scrape_date_range uses it: `if not end_year` takes the current year
EndYear(end_year) == IF end_year = 0 THEN now ELSE end_year

\* the rows and the requests of the loop over range(start_year, end_year + 1)
RECURSIVE YearRows(_, _, _, _)
YearRows(name, start_year, last_year, down) ==
  IF last_year < start_year THEN <<>>
  ELSE YearRows(name, start_year, last_year - 1, down)
         \o _collect_data_from(name, last_year, down)

RECURSIVE YearLog(_, _, _)
YearLog(start_year, last_year, down) ==
  IF last_year < start_year THEN <<>>
  ELSE YearLog(start_year, last_year - 1, down) \o CollectLog(last_year, down)

\* the five frames _scrape_date_range returns
NewFrames(start_year, end_year, down) ==
  LET all(name) == YearRows(name, start_year, EndYear(end_year), down)
  IN [races |-> DataFrame(all("races")),
      circuits |-> drop_duplicates(DataFrame(all("circuits"))),
      results |-> DataFrame(all("results")),
      drivers |-> drop_duplicates(DataFrame(all("drivers"))),
      constructors |-> drop_duplicates(DataFrame(all("constructors")))]

\* the files _scrape_date_range writes before it returns
RawFiles(new) == LET written(n) == to_csv(n, new[n]) IN Each(written)

\* ---------------------------------------------------------------- the store
Store == [races |-> races, circuits |-> circuits, results |-> results,
          drivers |-> drivers, constructors |-> constructors]

Unloaded == LET none(n) == None IN Each(none)

_all_data_loaded(T) == \A n \in TableNames : ~T[n].isNone

\* a frame built from no rows has no columns: frame['RaceID'] raises KeyError
HasColumns(df) == Len(df.rows) > 0

\* save_data's chain: sort_values(...).reset_index(drop=True).drop_duplicates()
Normalised(name, df) == drop_duplicates(reset_index(sort_values(name, df)))

\* the position in TableOrder at which save_data raises KeyError (6: nowhere)
FirstWithoutColumns(T) ==
  IF \E i \in 1..5 : ~HasColumns(T[TableOrder[i]])
  THEN CHOOSE i \in 1..5 :
         /\ ~HasColumns(T[TableOrder[i]])
         /\ \A j \in 1..(i - 1) : HasColumns(T[TableOrder[j]])
  ELSE 6

OrderOf(name) == CHOOSE i \in 1..5 : TableOrder[i] = name

\* save_data on tables T and files F: the tables, the files, the return value
SavedFrom(T, F, stop) ==
  LET kept(n) == IF OrderOf(n) < stop THEN Normalised(n, T[n]) ELSE T[n]
      result(T2) ==
        LET written(n) == IF OrderOf(n) < stop THEN to_csv(n, T2[n]) ELSE F[n]
        IN [T |-> T2, F |-> Each(written),
            ret |-> IF stop = 6 THEN "Saved" ELSE "KeyError"]
  IN Bind(Each(kept), result)

\* save_data without its check that the tables are loaded
save_data_unchecked(T, F) == SavedFrom(T, F, FirstWithoutColumns(T))

save_data(T, F) ==
  IF ~_all_data_loaded(T) THEN [T |-> T, F |-> F, ret |-> "None"]
  ELSE SavedFrom(T, F, FirstWithoutColumns(T))

\* the merge without its drop_duplicates call
MergeNoDedup(old, new) == concat(old, new)

\* the new frame adopted in place of the merge
MergeReplacing(old, new) == new

\* scrape's merge of the loaded table with the new frame
Merge(old, new) == drop_duplicates(concat(old, new))

\* scrape(start_year, end_year) on tables T: tables, files, return value, requests
scrape(T, start_year, end_year, down) ==
  LET save(TF) ==
        LET finish(saved) ==
              [T |-> saved.T, F |-> saved.F,
               ret |-> IF saved.ret = "KeyError" THEN "KeyError" ELSE "Complete",
               log |-> YearLog(start_year, EndYear(end_year), down),
               writes |-> <<TF[2], saved.F>>]
        IN Bind(save_data(TF[1], TF[2]), finish)
      combine(new) ==
        LET merged(n) == Merge(T[n], new[n])
        IN Bind(<<IF _all_data_loaded(T) THEN Each(merged) ELSE new, RawFiles(new)>>,
                save)
  IN Bind(NewFrames(start_year, end_year, down), combine)

RaceIDs(df) == {df.rows[i].row.RaceID : i \in 1..Len(df.rows)}

MaxSeason(df) ==
  CHOOSE s \in {df.rows[i].row.Season : i \in 1..Len(df.rows)} :
    \A i \in 1..Len(df.rows) : df.rows[i].row.Season <= s

\* the membership test of update() made against the Season column
UpToDateBySeason(race_id, df) ==
  race_id \in {df.rows[i].row.Season : i \in 1..Len(df.rows)}

UpToDate(race_id, df) == race_id \in RaceIDs(df)

\* update() from the parsing of the `last` response on (lines 348-353)
update_fetched(T, F, down) ==
  IF PublishedSeasons = {}
  THEN [T |-> T, F |-> F, ret |-> "IndexError", log |-> <<<<0, 0, "empty">>>>,
        writes |-> <<>>]
  ELSE IF ~HasColumns(T.races)
  THEN [T |-> T, F |-> F, ret |-> "KeyError", log |-> <<<<0, 0, "ok">>>>,
        writes |-> <<>>]
  ELSE IF UpToDate(_get_race_id(Payload(LatestRace[1], LatestRace[2])), T.races)
  THEN [T |-> T, F |-> F, ret |-> "UpToDate", log |-> <<<<0, 0, "ok">>>>,
        writes |-> <<>>]
  ELSE LET result(s) ==
             [T |-> s.T, F |-> s.F,
              ret |-> IF s.ret = "KeyError" THEN "KeyError" ELSE "None",
              log |-> <<<<0, 0, "ok">>>> \o s.log,
              writes |-> s.writes]
       IN Bind(scrape(T, MaxSeason(T.races), 0, down), result)

\* update() going on to parse the response whatever r.ok says
update_status_ignored(T, F, lastOk, down) == update_fetched(T, F, down)

\* update() past its check that the tables are loaded; lastOk: the `last` request's r.ok
update_loaded(T, F, lastOk, down) ==
  IF ~lastOk
  THEN [T |-> T, F |-> F, ret |-> "RequestFailed", log |-> <<<<0, 0, "fail">>>>,
        writes |-> <<>>]
  ELSE update_fetched(T, F, down)

\* update() without its check that the tables are loaded
update_unchecked(T, F, lastOk, down) == update_loaded(T, F, lastOk, down)

\* update() on tables T and files F: tables, files, return value, requests
update(T, F, lastOk, down) ==
  IF ~_all_data_loaded(T)
  THEN [T |-> T, F |-> F, ret |-> "NoDataLoaded", log |-> <<>>, writes |-> <<>>]
  ELSE update_loaded(T, F, lastOk, down)

\* __init__: load all five files, or none
AllFilesPresent(F) == \A n \in TableNames : F[n].exists

\* __init__ reading whichever of the five files are there
LoadedPartial(dirE, F) ==
  LET read(n) == IF dirE /\ F[n].exists THEN read_csv(n, F[n]) ELSE None
  IN Each(read)

Loaded(dirE, F) ==
  IF dirE /\ AllFilesPresent(F)
  THEN LET read(n) == read_csv(n, F[n]) IN Each(read)
  ELSE Unloaded

\* ------------------------------------------------------------------ state
NoArgs == [start |-> 0, end |-> 0, down |-> {}, ok |-> TRUE]
NoScenario == [stage |-> "none", Y |-> 0, first |-> 0, added |-> 0]
NoInput == [season |-> <<0>>, round |-> <<0>>]
NoRow == [RaceID |-> -1]
NoLoop == [pc |-> "idle"]

StoreIs(T) ==
  /\ races' = T.races
  /\ circuits' = T.circuits
  /\ results' = T.results
  /\ drivers' = T.drivers
  /\ constructors' = T.constructors

LastIs(op, args, ret, log, written) ==
  /\ lastOp' = op
  /\ lastArgs' = args
  /\ lastRet' = ret
  /\ requests' = Len(log)
  /\ writes' = written

\* the requests for a published round that a scrape of start_year..end_year can issue,
\* and the outages among them (an outage at the round after the last published one
\* ends the loop as the empty race list does)
Issuable(start_year, end_year) ==
  {<<y, r>> : y \in start_year..EndYear(end_year), r \in 1..(MaxRounds + 1)}
    \cap {yr \in Seasons \X (1..(MaxRounds + 1)) : yr[2] <= published[yr[1]]}

Outages(start_year, end_year) ==
  {d \in SUBSET Issuable(start_year, end_year) : Cardinality(d) <= MaxOutages}

Init ==
  /\ constructed = FALSE
  /\ races = None /\ circuits = None /\ results = None
  /\ drivers = None /\ constructors = None
  /\ dirExists = FALSE
  /\ files = (LET none(n) == NoFile IN Each(none))
  /\ published = [s \in Seasons |-> 0]
  /\ now = FirstSeason
  /\ lastOp = "none" /\ lastArgs = NoArgs /\ lastRet = "None" /\ requests = 0
  /\ writes = <<>>
  /\ scenario = NoScenario
  /\ arg = NoInput /\ rid = -1 /\ race_row = NoRow /\ raised = "None"
  /\ loop = NoLoop

\* FormulaOne(): __init__ on the directory as it is
Construct ==
  /\ ~constructed
  /\ constructed' = TRUE
  /\ \E T \in {Loaded(dirExists, files)} : StoreIs(T)
  /\ dirExists' = TRUE
  /\ LastIs("init", NoArgs, "None", <<>>, <<>>)
  /\ scenario' = NoScenario
  /\ UNCHANGED <<files, upstream, fn>>

\* f1.scrape(start_year, end_year); end_year 0 is the default None
Scrape(start_year, end_year, down) ==
  /\ constructed
  /\ \E r \in {scrape(Store, start_year, end_year, down)} :
        /\ StoreIs(r.T)
        /\ files' = r.F
        /\ LastIs("scrape", [NoArgs EXCEPT !.start = start_year, !.end = end_year,
                                            !.down = down],
                  r.ret, r.log, r.writes)
  /\ dirExists' = TRUE
  /\ scenario' = IF ~_all_data_loaded(Store) /\ start_year = end_year /\ down = {}
                 THEN [stage |-> "scraped", Y |-> start_year,
                       first |-> published[start_year], added |-> 0]
                 ELSE NoScenario
  /\ UNCHANGED <<constructed, upstream, fn>>

\* whether update() gets as far as its call of scrape
Stale(T) ==
  /\ _all_data_loaded(T)
  /\ PublishedSeasons # {}
  /\ HasColumns(T.races)
  /\ ~UpToDate(_get_race_id(Payload(LatestRace[1], LatestRace[2])), T.races)

\* f1.update()
Update(lastOk, down) ==
  /\ constructed
  /\ down # {} => lastOk /\ Stale(Store) /\ down \in Outages(MaxSeason(races), 0)
  /\ \E r \in {update(Store, files, lastOk, down)} :
        /\ StoreIs(r.T)
        /\ files' = r.F
        /\ LastIs("update", [NoArgs EXCEPT !.down = down, !.ok = lastOk],
                  r.ret, r.log, r.writes)
  /\ scenario' = IF scenario.stage = "published" /\ lastOk /\ down = {}
                 THEN [scenario EXCEPT !.stage = "updated"]
                 ELSE NoScenario
  /\ UNCHANGED <<constructed, dirExists, upstream, fn>>

\* f1.save_data()
SaveData ==
  /\ constructed
  /\ \E r \in {save_data(Store, files)} :
        /\ StoreIs(r.T)
        /\ files' = r.F
        /\ LastIs("save_data", NoArgs, r.ret, <<>>,
                  IF r.ret = "None" THEN <<>> ELSE <<r.F>>)
  /\ scenario' = NoScenario
  /\ UNCHANGED <<constructed, dirExists, upstream, fn>>

\* the API publishes the next race of the current season
NumPublished == Cardinality({yr \in Seasons \X Rounds : yr[2] <= published[yr[1]]})

Publish ==
  /\ published[now] < MaxRounds
  /\ NumPublished < MaxRaces
  /\ published' = [published EXCEPT ![now] = @ + 1]
  /\ scenario' = IF scenario.stage = "scraped"
                 THEN [scenario EXCEPT !.stage = "published", !.added = now]
                 ELSE NoScenario
  /\ LastIs("env", NoArgs, "None", <<>>, <<>>)
  /\ UNCHANGED <<constructed, tables, disk, now, fn>>

\* the calendar year changes
NewYear ==
  /\ now < LastSeason
  /\ now' = now + 1
  /\ LastIs("env", NoArgs, "None", <<>>, <<>>)
  /\ UNCHANGED <<constructed, tables, disk, published, scenario, fn>>

\* the process ends: the object and its tables are gone, the files stay
Exit ==
  /\ constructed
  /\ constructed' = FALSE
  /\ StoreIs(Unloaded)
  /\ scenario' = NoScenario
  /\ LastIs("env", NoArgs, "None", <<>>, <<>>)
  /\ UNCHANGED <<disk, upstream, fn>>

\* between two runs of the program a file of the directory is removed
RemoveFile(n) ==
  /\ ~constructed
  /\ AllFilesPresent(files)
  /\ files' = [files EXCEPT ![n] = NoFile]
  /\ scenario' = NoScenario
  /\ LastIs("env", NoArgs, "None", <<>>, <<>>)
  /\ UNCHANGED <<constructed, tables, dirExists, upstream, fn>>

Next ==
  \/ Construct
  \/ \E start_year \in Seasons :
       \E end_year \in {0, start_year} :
         \E down \in Outages(start_year, end_year) : Scrape(start_year, end_year, down)
  \/ \E lastOk \in BOOLEAN, down \in Outages(FirstSeason, 0) : Update(lastOk, down)
  \/ SaveData
  \/ Publish
  \/ NewYear
  \/ Exit
  \/ \E n \in TableNames : RemoveFile(n)

Spec == Init /\ [][Next]_vars

\* ------------------------------------- a second FormulaOne() in one process
\* f1 = FormulaOne() run again while a store exists: __init__ on the directory as it is
Reconstruct ==
  /\ constructed
  /\ \E T \in {Loaded(dirExists, files)} : StoreIs(T)
  /\ dirExists' = TRUE
  /\ LastIs("init", NoArgs, "None", <<>>, <<>>)
  /\ scenario' = NoScenario
  /\ UNCHANGED <<constructed, files, upstream, fn>>

NextWithReconstruct ==
  \/ Next
  \/ Reconstruct

SpecRoundTrip == Init /\ [][NextWithReconstruct]_vars

\* --------------------------------- _collect_data_from run step by step
\* round_num += 1 not done
SameRound(round_num) == round_num

\* line 219
NextRound(round_num) == round_num + 1

\* the outages that can meet the requests for one year
YearOutages(year) ==
  {d \in SUBSET ({year} \X (1..(MaxRounds + 1))) : Cardinality(d) <= MaxOutages}

\* _collect_data_from(year) entered: the five lists empty, round_num 1
LoopStart(year, down) ==
  [pc |-> "request", year |-> year, round_num |-> 1, down |-> down,
   requested |-> <<>>,
   rows |-> [races |-> <<>>, circuits |-> <<>>, results |-> <<>>,
             drivers |-> <<>>, constructors |-> <<>>]]

InitCollect ==
  /\ constructed = FALSE
  /\ races = None /\ circuits = None /\ results = None
  /\ drivers = None /\ constructors = None
  /\ dirExists = FALSE
  /\ files = (LET none(n) == NoFile IN Each(none))
  /\ published \in [Seasons -> 0..MaxRounds]
  /\ now = LastSeason
  /\ lastOp = "none" /\ lastArgs = NoArgs /\ lastRet = "None" /\ requests = 0
  /\ writes = <<>>
  /\ scenario = NoScenario
  /\ arg = NoInput /\ rid = -1 /\ race_row = NoRow /\ raised = "None"
  /\ \E year \in Seasons : \E down \in YearOutages(year) : loop = LoopStart(year, down)

\* one pass of the `while True` body
CollectStep ==
  /\ loop.pc = "request"
  /\ \E ROUND \in {Response(loop.year, loop.round_num, loop.down)} :
       IF ROUND # "ok"
       THEN loop' = [loop EXCEPT !.pc = "returned",
                                 !.requested = Append(@, loop.round_num)]
       ELSE \E data \in {Payload(loop.year, loop.round_num)} :
              loop' = [loop EXCEPT
                         !.requested = Append(@, loop.round_num),
                         !.rows = (LET more(n) == loop.rows[n] \o EventRows(n, data)
                                   IN Each(more)),
                         !.round_num = NextRound(@)]
  /\ UNCHANGED <<constructed, tables, disk, upstream, last, scenario, arg, rid,
                 race_row, raised>>

SpecCollect == InitCollect /\ [][CollectStep]_vars

\* ------------------------------------------------- consumers of the store
\* DataFrame.drop(df.index[-1], inplace=True)
drop_last(df) == Frame(SubSeq(df.rows, 1, Len(df.rows) - 1))

\* a consumer takes f1.<n>, which is the store's own frame, and changes it in place
\* (a row is left, so that the frame keeps its columns)
ConsumerMutatesTable(n) ==
  /\ constructed
  /\ ~Store[n].isNone /\ Len(Store[n].rows) > 1
  /\ StoreIs([Store EXCEPT ![n] = drop_last(Store[n])])
  /\ LastIs("consumer", NoArgs, "None", <<>>, <<>>)
  /\ scenario' = NoScenario
  /\ UNCHANGED <<constructed, disk, upstream, fn>>

\* a consumer changes a frame it derived from f1.<n> by a selection or a merge, as the
\* dashboard does: the derived frame is a new object
ConsumerMutatesSelection(n) ==
  /\ constructed
  /\ ~Store[n].isNone /\ Len(Store[n].rows) > 0
  /\ LastIs("consumer", NoArgs, "None", <<>>, <<>>)
  /\ scenario' = NoScenario
  /\ UNCHANGED <<constructed, tables, disk, upstream, fn>>

\* one run of the dashboard's process: the store is built, synchronised and read
NextWithConsumers ==
  \/ Construct
  \/ Scrape(now, now, {})
  \/ SaveData
  \/ Publish
  \/ \E n \in TableNames : ConsumerMutatesTable(n)
  \/ \E n \in TableNames : ConsumerMutatesSelection(n)

SpecConsumers == Init /\ [][NextWithConsumers]_vars

\* ---------------------------------------- _get_race_id applied on its own
RaceIdInputs ==
  {[season |-> Str(s), round |-> Str(r)] : s \in Seasons, r \in 0..MaxRoundArg}

InitRaceId ==
  /\ constructed = FALSE
  /\ races = None /\ circuits = None /\ results = None
  /\ drivers = None /\ constructors = None
  /\ dirExists = FALSE
  /\ files = (LET none(n) == NoFile IN Each(none))
  /\ published = [s \in Seasons |-> 0]
  /\ now = FirstSeason
  /\ lastOp = "none" /\ lastArgs = NoArgs /\ lastRet = "None" /\ requests = 0
  /\ writes = <<>>
  /\ scenario = NoScenario
  /\ arg \in RaceIdInputs /\ rid = -1 /\ race_row = NoRow /\ raised = "None"
  /\ loop = NoLoop

GetRaceId ==
  /\ rid = -1 /\ raised = "None"
  /\ IF _get_race_id_raises(arg)
     THEN raised' = "TypeError" /\ rid' = rid
     ELSE raised' = raised /\ rid' = _get_race_id(arg)
  /\ UNCHANGED <<constructed, tables, disk, upstream, last, scenario, arg, race_row,
                 loop>>

SpecRaceId == InitRaceId /\ [][GetRaceId]_vars

\* -------------------------------------------- _get_race applied on its own
\* a race event without the keys K
Without(data, K) == [k \in DOMAIN data \ K |-> data[k]]

\* race events as the API serves them, and with the season or the round left out
RaceEvents ==
  {Without(Payload(s, r), K) :
     s \in Seasons, r \in 1..MaxRoundArg, K \in SUBSET {"season", "round"}}

InitRaceRow ==
  /\ constructed = FALSE
  /\ races = None /\ circuits = None /\ results = None
  /\ drivers = None /\ constructors = None
  /\ dirExists = FALSE
  /\ files = (LET none(n) == NoFile IN Each(none))
  /\ published = [s \in Seasons |-> 0]
  /\ now = FirstSeason
  /\ lastOp = "none" /\ lastArgs = NoArgs /\ lastRet = "None" /\ requests = 0
  /\ writes = <<>>
  /\ scenario = NoScenario
  /\ arg \in RaceEvents /\ rid = -1 /\ race_row = NoRow /\ raised = "None"
  /\ loop = NoLoop

GetRace ==
  /\ race_row = NoRow /\ raised = "None"
  /\ IF _get_race_raises(arg)
     THEN raised' = "TypeError" /\ UNCHANGED <<race_row, rid>>
     ELSE /\ raised' = raised
          /\ race_row' = _get_race(arg)
          /\ rid' = race_row'.RaceID
  /\ UNCHANGED <<constructed, tables, disk, upstream, last, scenario, arg, loop>>

SpecRaceRow == InitRaceRow /\ [][GetRace]_vars

\* ------------------------------------------------------------------ claims
Store2 == [races |-> races', circuits |-> circuits', results |-> results',
           drivers |-> drivers', constructors |-> constructors']

LatestRaceID == _get_race_id(Payload(LatestRace[1], LatestRace[2]))

RaceIdColumn(rows) == [i \in 1..Len(rows) |-> rows[i].row.RaceID]

ResultKeyColumn(rows) ==
  [i \in 1..Len(rows) |-> <<rows[i].row.RaceID, rows[i].row.Position>>]

\* C1: when the RaceID of the race the `last` endpoint returns is already in the Race
\* table, a step of update() leaves the five tables as they were.
C1_UpdateNoOp ==
  [][(/\ lastOp' = "update"
      /\ _all_data_loaded(Store)
      /\ PublishedSeasons # {}
      /\ LatestRaceID \in RaceIDs(races))
     => UNCHANGED tables]_vars

C1_Witness ==
  /\ lastOp = "update"
  /\ lastRet = "UpToDate"
  /\ requests = 1
  /\ LatestRaceID \in RaceIDs(races)

\* the tables of scrape(Y, Y) run on an unloaded store against the upstream as it is now
FreshScrape(Y) == scrape(Unloaded, Y, Y, {}).T

\* C2 as stated: scrape(Y, Y) on an unloaded store (some race of Y being published),
\* one more race published, update() with every request answered: the Race and Result
\* tables are those of a fresh scrape(Y, Y).
C2_IncrementalEquivalence ==
  (scenario.stage = "updated" /\ scenario.first > 0) =>
    /\ races = FreshScrape(scenario.Y).races
    /\ results = FreshScrape(scenario.Y).results

\* C2 amended: the same, when the race published since belongs to season Y.
C2_IncrementalEquivalenceSameSeason ==
  (scenario.stage = "updated" /\ scenario.first > 0 /\ scenario.added = scenario.Y) =>
    /\ races = FreshScrape(scenario.Y).races
    /\ results = FreshScrape(scenario.Y).results

C2_Witness ==
  /\ scenario.stage = "updated"
  /\ scenario.first > 0
  /\ scenario.added = scenario.Y
  /\ lastOp = "update" /\ lastRet = "None"
  /\ Len(races.rows) = scenario.first + 1

\* C3: for a round in 1..99 the RaceID is season * 100 + round.
C3_RaceIdDerivation ==
  (rid # -1 /\ IntOf(arg.round) \in 1..99) =>
    rid = IntOf(arg.season) * 100 + IntOf(arg.round)

C3_Witness ==
  /\ rid # -1
  /\ IntOf(arg.round) = 13
  /\ rid = IntOf(arg.season) * 100 + 13

\* C4: no two rows of the Race table have the same RaceID.
C4_RaceIdUnique ==
  \A i, j \in 1..Len(races.rows) :
    races.rows[i].row.RaceID = races.rows[j].row.RaceID => i = j

\* C5: save_data() called right after a save_data() that wrote the files leaves each
\* of the five files as it is, index column included.
C5_PersistIdempotent ==
  [][(lastOp = "save_data" /\ lastRet = "Saved" /\ lastOp' = "save_data")
     => files' = files]_vars

NonDecreasing(column) ==
  \A i \in 1..(Len(column) - 1) : column[i] <= column[i + 1]

KeysNonDecreasing(column) ==
  \A i \in 1..(Len(column) - 1) : KeyLeq(column[i], column[i + 1])

\* an operation that ran save_data to its end
Persisted ==
  \/ lastOp = "save_data" /\ lastRet = "Saved"
  \/ lastOp = "scrape" /\ lastRet = "Complete"
  \/ lastOp = "update" /\ lastRet = "None"

\* C6: after a persist the RaceIDs of the Race table, in memory and in the file, are in
\* non-decreasing order, and the Result table is ordered by RaceID, then Position.
C6_PersistedOrder ==
  Persisted =>
    /\ NonDecreasing(RaceIdColumn(races.rows))
    /\ NonDecreasing(RaceIdColumn(files.races.rows))
    /\ KeysNonDecreasing(ResultKeyColumn(results.rows))
    /\ KeysNonDecreasing(ResultKeyColumn(files.results.rows))

C6_Witness ==
  /\ lastOp = "save_data" /\ lastRet = "Saved"
  /\ Cardinality(RaceIDs(races)) >= 2
  /\ Len(files.races.rows) >= 2
  /\ Len(files.results.rows) >= 2 * ResultsPerRace

\* C7: after __init__ the directory exists; the five tables are all loaded, each with
\* the content of its file, when all five files are there, and all unset otherwise.
C7_InitAllOrNothing ==
  lastOp = "init" =>
    /\ dirExists
    /\ AllFilesPresent(files) =>
         \A n \in TableNames : ~Store[n].isNone /\ to_csv(n, Store[n]) = files[n]
    /\ ~AllFilesPresent(files) => \A n \in TableNames : Store[n].isNone

C7_Witness ==
  /\ lastOp = "init"
  /\ \E n \in TableNames : files[n].exists
  /\ \E n \in TableNames : ~files[n].exists
  /\ \A n \in TableNames : Store[n].isNone

\* C8: update() on tables that are not loaded returns the NoDataLoaded status, issues
\* no request and leaves the tables and the files as they were.
C8_UpdateNoDataLoaded ==
  [][(lastOp' = "update" /\ ~_all_data_loaded(Store))
     => /\ lastRet' = "NoDataLoaded"
        /\ requests' = 0
        /\ UNCHANGED <<tables, disk>>]_vars

C8_Witness ==
  /\ lastOp = "update"
  /\ lastRet = "NoDataLoaded"
  /\ requests = 0
  /\ PublishedSeasons # {}

\* the rows of a frame as the text a file would hold
TextRows(name, df) ==
  LET file == to_csv(name, df)
  IN [i \in 1..Len(file.rows) |-> file.rows[i].row]

TextSet(name, df) == {TextRows(name, df)[i] : i \in 1..Len(df.rows)}

\* every row the upstream serves for start_year..end_year is held by tables T
RangeHeld(T, start_year, end_year) ==
  \A n \in TableNames :
    TextSet(n, NewFrames(start_year, end_year, {})[n]) \subseteq TextSet(n, T[n])

\* C9: scrape() over a range whose upstream data the loaded store already holds leaves
\* every table with the rows it had: none added, none lost (the merge of a table with
\* rows it already holds deduplicates back to the table).
C9_DedupClosure ==
  [][(/\ lastOp' = "scrape"
      /\ _all_data_loaded(Store)
      /\ RangeHeld(Store, lastArgs'.start, lastArgs'.end))
     => \A n \in TableNames :
          /\ Len(Store2[n].rows) = Len(Store[n].rows)
          /\ TextSet(n, Store2[n]) = TextSet(n, Store[n])]_vars

\* RaceIDs season * 100 + 1 .. season * 100 + n
SeasonIds(season, n) == [i \in 1..n |-> season * 100 + i]

\* the requests of an update() that scrapes start_year..now with every request answered
FullRequests(start_year) ==
  LET years == start_year..now
      count[y \in (start_year - 1)..now] ==
        IF y < start_year THEN 0 ELSE count[y - 1] + published[y] + 1
  IN 1 + count[now]

\* C10: from a loaded store whose Race table is the complete season S, an update() whose
\* latest upstream race belongs to season S + 1 (every request answered) leaves a Race
\* table holding S01..Sn then (S+1)01..latest, ascending, each once.
C10_EndToEnd ==
  [][\A S \in Seasons :
       (/\ lastOp' = "update"
        /\ _all_data_loaded(Store)
        /\ published[S] > 0
        /\ RaceIdColumn(races.rows) = SeasonIds(S, published[S])
        /\ PublishedSeasons # {}
        /\ LatestSeason = S + 1
        /\ requests' = FullRequests(S))
       => RaceIdColumn(races'.rows)
            = SeasonIds(S, published[S]) \o SeasonIds(S + 1, published[S + 1])]_vars

\* C11: save_data() on tables that are not all loaded returns None and leaves the
\* tables, the directory and each of the five files as they were.
C11_PersistSkipped ==
  [][(lastOp' = "save_data" /\ ~_all_data_loaded(Store))
     => /\ lastRet' = "None"
        /\ UNCHANGED <<tables, disk>>]_vars

C11_Witness ==
  /\ lastOp = "save_data"
  /\ lastRet = "None"
  /\ ~_all_data_loaded(Store)
  /\ \E n \in TableNames : files[n].exists
  /\ \E n \in TableNames : ~files[n].exists

\* C12: when the `last` request of update() on a loaded store is not answered with
\* success, update() returns the failure status, issues no other request (no scrape)
\* and leaves the tables and the files as they were.
C12_UpdateRequestFailed ==
  [][(lastOp' = "update" /\ _all_data_loaded(Store) /\ ~lastArgs'.ok)
       => /\ lastRet' = "RequestFailed"
          /\ requests' = 1
          /\ UNCHANGED <<tables, disk>>]_vars

C12_Witness ==
  /\ lastOp = "update"
  /\ ~lastArgs.ok
  /\ lastRet = "RequestFailed"
  /\ _all_data_loaded(Store)
  /\ PublishedSeasons # {}
  /\ ~UpToDate(LatestRaceID, races)

\* C13: a race event without its season or its round is turned into a race row with
\* no exception raised, the Season of the row being -1 and the Round 0 when missing.
C13_MissingFieldsTolerated ==
  ((race_row # NoRow \/ raised # "None") /\ {"season", "round"} \ DOMAIN arg # {}) =>
    /\ raised = "None"
    /\ race_row.Season = (IF "season" \in DOMAIN arg THEN IntOf(arg.season) ELSE -1)
    /\ race_row.Round = (IF "round" \in DOMAIN arg THEN IntOf(arg.round) ELSE 0)
    /\ rid = race_row.RaceID

\* (season, round) of a comes before that of b
Earlier(a, b) ==
  \/ IntOf(a.season) < IntOf(b.season)
  \/ IntOf(a.season) = IntOf(b.season) /\ IntOf(a.round) < IntOf(b.round)

RoundIn1To99(data) == IntOf(data.round) \in 1..99

\* C14: for rounds in 1..99, the RaceID of one (season, round) is below that of another
\* exactly when its season is earlier, or the season is the same and its round earlier.
C14_RaceIdChronological ==
  (rid # -1 /\ RoundIn1To99(arg)) =>
    \A other \in {d \in RaceIdInputs : RoundIn1To99(d)} :
      (rid < _get_race_id(other)) <=> Earlier(arg, other)

C14_Witness ==
  /\ rid # -1
  /\ IntOf(arg.season) = FirstSeason /\ IntOf(arg.round) = 99
  /\ rid < _get_race_id([season |-> Str(FirstSeason + 1), round |-> Str(1)])

\* C15: a change a consumer makes to a table it got from the store leaves the five
\* tables of the store as they were.
C15_ConsumersCannotMutate ==
  [][lastOp' = "consumer" => UNCHANGED tables]_vars

\* C16: _collect_data_from(year) requests the rounds 1, 2, 3, ... in order, each only
\* after all the rounds before it were answered with a race; the first response that
\* is a failure or an empty race list makes it return, with no exception, the rows of
\* the rounds before that one, in round order.
C16_CollectSeasonInOrder ==
  LET k == Len(loop.requested)
      stopped == k > 0 /\ Response(loop.year, k, loop.down) # "ok"
  IN /\ loop.requested = [i \in 1..k |-> i]
     /\ \A i \in 1..(k - 1) : Response(loop.year, i, loop.down) = "ok"
     /\ loop.pc = (IF stopped THEN "returned" ELSE "request")
     /\ stopped =>
          /\ [i \in 1..(k - 1) |-> loop.rows.races[i].RaceID]
               = [i \in 1..(k - 1) |-> loop.year * 100 + i]
          /\ \A n \in TableNames :
               loop.rows[n] = _collect_data_from(n, loop.year, loop.down)

C16_Witness ==
  /\ loop.pc = "returned"
  /\ loop.requested = <<1, 2>>
  /\ Response(loop.year, 2, loop.down) = "fail"
  /\ published[loop.year] = 2
  /\ Len(loop.rows.races) = 1

RowSet(df) == {df.rows[i].row : i \in 1..Len(df.rows)}

\* the frames the scrape of the step collects
Collected == NewFrames(lastArgs'.start, lastArgs'.end, lastArgs'.down)

\* C17: after scrape() on a loaded store the rows of each table are those it held and
\* those collected, no more and no fewer; on an unloaded store, those collected.
C17_ScrapeMergesByUnion ==
  [][lastOp' = "scrape" =>
       \A n \in TableNames :
         RowSet(Store2[n]) = IF _all_data_loaded(Store)
                             THEN RowSet(Store[n]) \cup RowSet(Collected[n])
                             ELSE RowSet(Collected[n])]_vars

C17_Witness ==
  /\ lastOp = "scrape" /\ lastRet = "Complete"
  /\ lastArgs.start = LastSeason /\ lastArgs.end = LastSeason
  /\ \E i \in 1..Len(races.rows) : races.rows[i].row.Season = FirstSeason
  /\ \E i \in 1..Len(races.rows) : races.rows[i].row.Season = LastSeason

\* C18: every scrape() completes, with the five tables loaded and each file holding
\* its table, sorted and deduplicated.
C18_ScrapeAlwaysPersists ==
  [][lastOp' = "scrape" =>
       /\ lastRet' = "Complete"
       /\ _all_data_loaded(Store2)
       /\ \A n \in TableNames :
            /\ files'[n] = to_csv(n, Store2[n])
            /\ Store2[n] = drop_duplicates(sort_values(n, Store2[n]))]_vars

FileRowSet(file) == {file.rows[i].row : i \in 1..Len(file.rows)}

\* C19: during a scrape() or an update() of a loaded store whose five files are there,
\* every round of writes leaves in each file the rows it held before the operation,
\* and what it writes is the merged table the operation ends with.
C19_SyncWritesMerged ==
  [][(lastOp' \in {"scrape", "update"} /\ _all_data_loaded(Store)
        /\ AllFilesPresent(files)) =>
       \A i \in 1..Len(writes') : \A n \in TableNames :
         /\ FileRowSet(files[n]) \subseteq FileRowSet(writes'[i][n])
         /\ writes'[i][n] = to_csv(n, Store2[n])]_vars

\* C20: the five tables are all set or all unset.
C20_AllSetOrAllUnset ==
  \/ \A n \in TableNames : Store[n].isNone
  \/ \A n \in TableNames : ~Store[n].isNone

C20_Witness ==
  /\ lastOp = "scrape" /\ lastRet = "KeyError"
  /\ \A n \in TableNames : ~Store[n].isNone
  /\ \E n \in TableNames : ~HasColumns(Store[n])

\* C21: a store constructed on the directory right after an operation that ran
\* save_data to its end holds, in each of its five tables, the rows that were
\* persisted, in the same order.
C21_PersistLoadRoundTrip ==
  [][(Persisted /\ lastOp' = "init") =>
       \A n \in TableNames :
         [i \in 1..Len(Store2[n].rows) |-> Store2[n].rows[i].row]
           = [i \in 1..Len(Store[n].rows) |-> Store[n].rows[i].row]]_vars

\* C22: once an update() that scraped, every request answered, has returned, the RaceID
\* of the latest upstream race is in the Race table, and an update() that follows
\* at once (its request answered) returns the up-to-date status and leaves the tables
\* and the files as they are.
C22_UpdateConverges ==
  [][(lastOp = "update" /\ lastRet = "None" /\ lastArgs.ok /\ lastArgs.down = {}) =>
       /\ LatestRaceID \in RaceIDs(races)
       /\ (lastOp' = "update" /\ lastArgs'.ok) =>
            /\ lastRet' = "UpToDate"
            /\ requests' = 1
            /\ UNCHANGED <<tables, disk>>]_vars

C22_Witness ==
  /\ lastOp = "update" /\ lastRet = "None"
  /\ lastArgs.ok /\ lastArgs.down = {}
  /\ requests > 1
  /\ LatestRaceID \in RaceIDs(races)
  /\ LatestSeason = LastSeason
  /\ \E i \in 1..Len(races.rows) : races.rows[i].row.Season = FirstSeason

IdsOf(df, column) == {df.rows[i].row[column] : i \in 1..Len(df.rows)}

\* C23: in a loaded store every RaceID of the Result table is in the Race table, every
\* CircuitID of the Race table in the Circuit table, and every DriverID and
\* ConstructorID of the Result table in the Driver and the Constructor table.
C23_ReferentialIntegrity ==
  _all_data_loaded(Store) =>
    /\ IdsOf(results, "RaceID") \subseteq IdsOf(races, "RaceID")
    /\ IdsOf(races, "CircuitID") \subseteq IdsOf(circuits, "CircuitID")
    /\ IdsOf(results, "DriverID") \subseteq IdsOf(drivers, "DriverID")
    /\ IdsOf(results, "ConstructorID") \subseteq IdsOf(constructors, "ConstructorID")

C23_Witness ==
  /\ lastOp = "update" /\ lastRet = "None"
  /\ Cardinality(IdsOf(results, "RaceID")) >= 2
  /\ Cardinality(IdsOf(races, "CircuitID")) >= 2
  /\ Cardinality(IdsOf(results, "DriverID")) = ResultsPerRace
  /\ Len(results.rows) > 2 * ResultsPerRace

====
